---- MODULE Spec2Model ----
(***************************************************************************)
(* The AUC metric accumulator of torchmetrics/classification/auc.py.       *)
(*                                                                         *)
(* An AUC object buffers one x vector and one y vector per update() call   *)
(* and, on compute(), concatenates the buffers and integrates the curve    *)
(* with the trapezoidal rule, after an optional stable descending sort.    *)
(*                                                                         *)
(* Tensors are records [ndim, data]: the number of dimensions and the      *)
(* elements in row-major order.  Areas are held doubled (the field         *)
(* `twice` of a compute result), so that the halves the trapezoidal rule   *)
(* produces on integer coordinates stay integral: an area of 1.0 is        *)
(* twice = 2, an area of 1.5 is twice = 3.                                 *)
(***************************************************************************)
EXTENDS Integers, Sequences, FiniteSets

\* ---------------------------------------------------------------- bounds
MaxUpdates == 2
MaxPoints == 3

VARIABLES
    x,          \* self.x: the buffered x vectors, in append order
    y,          \* self.y: the buffered y vectors, in append order
    reorder,    \* self.reorder
    last,       \* the most recent call: "init", "update", "update_failed", "compute"
    ret,        \* what the most recent call returned (or raised)
    again,      \* the most recent call is a compute() that directly followed a compute()
    all_x,      \* history: the preds of every accepted update, concatenated in call order
    all_y       \* history: the targets of every accepted update, concatenated in call order

vars == <<x, y, reorder, last, ret, again, all_x, all_y>>

\* ---------------------------------------------------------------- inputs
\* The vectors over S of at most MaxPoints elements.
Vectors(S) ==
    UNION {[1..k -> S] : k \in 0..MaxPoints}

\* preds: predictions, over the coordinates 0, 1, 2; target: ground truth
\* labels, 0 or 1.
XVals == {0, 1, 2}
YVals == {0, 1}

\* Forward takes tensors that should be 1D; a 2D one is what fails that.
Dims == {1, 2}

Tensors(S) ==
    [ndim : Dims, data : Vectors(S)]

Preds == Tensors(XVals)
Targets == Tensors(YVals)

Tensor1D(v) ==
    [ndim |-> 1, data |-> v]

\* ------------------------------------------------- the numeric functions
\* What update() and compute() return to the caller.
NoReturn ==
    [raised |-> FALSE, twice |-> 0, xs |-> <<>>, ys |-> <<>>, idx |-> <<>>]

Raised ==
    [raised |-> TRUE, twice |-> 0, xs |-> <<>>, ys |-> <<>>, idx |-> <<>>]

\* _auc_update: the inputs must be one-dimensional and of equal length; the
\* curve coordinates are then the two vectors.
_auc_update(preds, target) ==
    IF preds.ndim # 1 \/ target.ndim # 1 \/ Len(preds.data) # Len(target.data)
    THEN [raised |-> TRUE, x |-> <<>>, y |-> <<>>]
    ELSE [raised |-> FALSE, x |-> preds.data, y |-> target.data]

\* dim_zero_cat: the buffered vectors joined into one, in buffer order.
RECURSIVE dim_zero_cat(_)
dim_zero_cat(l) ==
    IF l = <<>> THEN <<>> ELSE Head(l) \o dim_zero_cat(Tail(l))

\* One step of the stable descending sort: index i goes after every index
\* already placed whose x is greater or equal.
RECURSIVE insert_idx(_, _, _)
insert_idx(v, idx, i) ==
    IF idx = <<>> THEN <<i>>
    ELSE IF v[Head(idx)] >= v[i]
         THEN <<Head(idx)>> \o insert_idx(v, Tail(idx), i)
         ELSE <<i>> \o idx

\* The permutation that sorts v[1..n] into descending order, stably.
RECURSIVE sort_idx(_, _)
sort_idx(v, n) ==
    IF n = 0 THEN <<>> ELSE insert_idx(v, sort_idx(v, n - 1), n)

\* Twice the trapezoidal integral of the curve (cx, cy), from point i on, x read
\* right to left (descending x gives a positive area).
RECURSIVE trapz(_, _, _)
trapz(cy, cx, i) ==
    IF i >= Len(cx) THEN 0
    ELSE (cx[i] - cx[i + 1]) * (cy[i] + cy[i + 1]) + trapz(cy, cx, i + 1)

\* _auc_compute: the optional reordering, then the trapezoidal rule.  The
\* result carries the integrated curve (xs, ys) and the permutation idx that
\* produced it next to the area.
_auc_compute(cx, cy, r) ==
    IF Len(cx) # Len(cy) THEN Raised
    ELSE LET n == Len(cx)
             idx == IF r THEN sort_idx(cx, n) ELSE [i \in 1..n |-> i]
             xs == [i \in 1..n |-> cx[idx[i]]]
             ys == [i \in 1..n |-> cy[idx[i]]]
         IN [raised |-> FALSE, twice |-> trapz(ys, xs, 1),
             xs |-> xs, ys |-> ys, idx |-> idx]

\* ------------------------------------------------------------ the methods
\* Variants of _update with a slip in the buffering.
_update_prepend(bx, by, preds, target) ==
    LET c == _auc_update(preds, target)
    IN IF c.raised
       THEN [x |-> bx, y |-> by, ret |-> Raised]
       ELSE [x |-> <<c.x>> \o bx, y |-> <<c.y>> \o by, ret |-> NoReturn]

_update_both_x(bx, by, preds, target) ==
    LET c == _auc_update(preds, target)
    IN IF c.raised
       THEN [x |-> bx, y |-> by, ret |-> Raised]
       ELSE [x |-> Append(Append(bx, c.x), c.y), y |-> by, ret |-> NoReturn]

_update_overwrite(bx, by, preds, target) ==
    LET c == _auc_update(preds, target)
    IN IF c.raised
       THEN [x |-> bx, y |-> by, ret |-> Raised]
       ELSE [x |-> <<c.x>>, y |-> <<c.y>>, ret |-> NoReturn]

_update_early_append(bx, by, preds, target) ==
    LET c == _auc_update(preds, target)
    IN IF c.raised
       THEN [x |-> Append(bx, preds.data), y |-> by, ret |-> Raised]
       ELSE [x |-> Append(bx, c.x), y |-> Append(by, c.y), ret |-> NoReturn]

\* AUC._update on buffers (bx, by): the buffers afterwards and the outcome.
_update(bx, by, preds, target) ==
    LET c == _auc_update(preds, target)
    IN IF c.raised
       THEN [x |-> bx, y |-> by, ret |-> Raised]
       ELSE [x |-> Append(bx, c.x), y |-> Append(by, c.y), ret |-> NoReturn]

\* Variants of _compute with a slip in the reduction.
Monotonic(v) ==
    \/ \A i \in 1..(Len(v) - 1) : v[i] >= v[i + 1]
    \/ \A i \in 1..(Len(v) - 1) : v[i] <= v[i + 1]

_compute_swapped(bx, by, r) ==
    [x |-> bx, y |-> by,
     ret |-> _auc_compute(dim_zero_cat(by), dim_zero_cat(bx), r)]

_compute_no_reorder(bx, by, r) ==
    [x |-> bx, y |-> by,
     ret |-> _auc_compute(dim_zero_cat(bx), dim_zero_cat(by), FALSE)]

_compute_y_from_x(bx, by, r) ==
    [x |-> bx, y |-> by,
     ret |-> _auc_compute(dim_zero_cat(bx), dim_zero_cat(bx), r)]

_compute_raise_empty(bx, by, r) ==
    [x |-> bx, y |-> by,
     ret |-> IF bx = <<>> \/ by = <<>> THEN Raised
             ELSE _auc_compute(dim_zero_cat(bx), dim_zero_cat(by), r)]

_compute_reset(bx, by, r) ==
    [x |-> <<>>, y |-> <<>>,
     ret |-> _auc_compute(dim_zero_cat(bx), dim_zero_cat(by), r)]

_compute_checked(bx, by, r) ==
    [x |-> bx, y |-> by,
     ret |-> IF ~r /\ ~Monotonic(dim_zero_cat(bx)) THEN Raised
             ELSE _auc_compute(dim_zero_cat(bx), dim_zero_cat(by), r)]

\* AUC._compute on buffers (bx, by): the buffers afterwards and the outcome.
_compute(bx, by, r) ==
    [x |-> bx, y |-> by,
     ret |-> _auc_compute(dim_zero_cat(bx), dim_zero_cat(by), r)]

\* ------------------------------------------------------- the state machine
Init ==
    /\ x = <<>>
    /\ y = <<>>
    /\ reorder \in BOOLEAN
    /\ last = "init"
    /\ ret = NoReturn
    /\ again = FALSE
    /\ all_x = <<>>
    /\ all_y = <<>>

Update ==
    /\ Len(x) < MaxUpdates
    /\ Len(y) < MaxUpdates
    /\ \E preds \in Preds :
        /\ Len(all_x) + Len(preds.data) <= MaxPoints
        /\ \E target \in Targets :
            /\ Len(all_y) + Len(target.data) <= MaxPoints
            /\ LET u == _update(x, y, preds, target)
                   ok == ~_auc_update(preds, target).raised
               IN /\ x' = u.x
                  /\ y' = u.y
                  /\ ret' = u.ret
                  /\ last' = IF u.ret.raised THEN "update_failed" ELSE "update"
                  /\ all_x' = IF ok THEN all_x \o preds.data ELSE all_x
                  /\ all_y' = IF ok THEN all_y \o target.data ELSE all_y
    /\ again' = FALSE
    /\ UNCHANGED reorder

Compute ==
    /\ LET c == _compute(x, y, reorder)
       IN /\ x' = c.x
          /\ y' = c.y
          /\ ret' = c.ret
    /\ last' = "compute"
    /\ again' = (last = "compute")
    /\ UNCHANGED <<reorder, all_x, all_y>>

Next ==
    \/ Update
    \/ Compute

Spec == Init /\ [][Next]_vars

\* ------------------------------------------------------------- the claims
NonIncreasing(v) ==
    \A i \in 1..(Len(v) - 1) : v[i] >= v[i + 1]

Min2(a, b) ==
    IF a <= b THEN a ELSE b

Abs(a) ==
    IF a >= 0 THEN a ELSE -a

\* Twice the area under the polyline through (cx, cy) up to point n, each
\* segment taken as a rectangle of the lower height plus a triangle on top.
RECURSIVE PolylineArea2(_, _, _)
PolylineArea2(cx, cy, n) ==
    IF n <= 1 THEN 0
    ELSE PolylineArea2(cx, cy, n - 1)
         + (cx[n - 1] - cx[n])
           * (2 * Min2(cy[n - 1], cy[n]) + Abs(cy[n - 1] - cy[n]))

\* The place point i of v takes in a stable descending sort: behind every
\* greater value and every equal value that comes before it.
StablePlace(v, i) ==
    1 + Cardinality({j \in 1..Len(v) : v[j] > v[i]})
      + Cardinality({j \in 1..(i - 1) : v[j] = v[i]})

\* The point that ends up at place k.
StableSource(v, k) ==
    CHOOSE i \in 1..Len(v) : StablePlace(v, i) = k

Permutations(n) ==
    {p \in [1..n -> 1..n] : \A i, j \in 1..n : p[i] = p[j] => i = j}

\* A fresh AUC object after one update with the whole history at once.
FreshSingle ==
    _update(<<>>, <<>>, Tensor1D(all_x), Tensor1D(all_y))

\* C1: after N >= 1 valid updates, compute() returns the value a fresh object
\* with the same reorder flag returns after one update with the concatenation,
\* in call order, of all N batches.
C1_BatchSplitting ==
    (last = "compute" /\ Len(x) >= 1) =>
        LET f == FreshSingle
            one == _compute(f.x, f.y, reorder).ret
        IN /\ ret.raised = one.raised
           /\ ret.twice = one.twice

C1_Witness ==
    /\ last = "compute"
    /\ Len(x) = 2
    /\ Len(x[1]) >= 1
    /\ Len(x[2]) >= 1
    /\ ret.twice # 0

\* C2: in every reachable state, x buffers as many vectors as y.
C2_SameLength ==
    Len(x) = Len(y)

C2_Witness ==
    /\ last = "update_failed"
    /\ Len(x) = 1
    /\ Len(y) = 1

\* C3: a valid update appends exactly one vector at the end of x and one at
\* the end of y: both buffers grow by one and every vector buffered before
\* stays in place.
C3_AppendOnly ==
    [][last' = "update" =>
        /\ Len(x') = Len(x) + 1
        /\ Len(y') = Len(y) + 1
        /\ SubSeq(x', 1, Len(x)) = x
        /\ SubSeq(y', 1, Len(y)) = y]_vars

C3_Witness ==
    /\ last = "update"
    /\ Len(x) = 2
    /\ x[1] # x[2]
    /\ Len(x[1]) >= 1

\* C4 as stated: with reorder unset and x sorted in descending order,
\* compute() is the trapezoidal integral, and the area of x = [2,1,0],
\* y = [0,1,1] is 1.0.
C4_Original ==
    (last = "compute" /\ ~reorder /\ NonIncreasing(all_x)) =>
        /\ ~ret.raised
        /\ ret.twice = PolylineArea2(all_x, all_y, Len(all_x))
        /\ (all_x = <<2, 1, 0>> /\ all_y = <<0, 1, 1>>) => ret.twice = 2

\* C4: with reorder unset and x sorted in descending order, compute() is the
\* trapezoidal integral of the concatenated curve, and the area of
\* x = [2,1,0], y = [0,1,1] is 1.5.
C4_Trapezoid ==
    (last = "compute" /\ ~reorder /\ NonIncreasing(all_x)) =>
        /\ ~ret.raised
        /\ ret.twice = PolylineArea2(all_x, all_y, Len(all_x))
        /\ (all_x = <<2, 1, 0>> /\ all_y = <<0, 1, 1>>) => ret.twice = 3

C4_Witness ==
    /\ last = "compute"
    /\ ~reorder
    /\ all_x = <<2, 1, 0>>
    /\ all_y = <<0, 1, 1>>
    /\ Len(x) = 2

\* C5 as stated: with reorder set, compute() returns what compute() returns
\* on the same points supplied in any descending order, and the area of
\* x = [0,2,1], y = [1,0,1] is 1.0.
C5_Original ==
    (last = "compute" /\ reorder) =>
        /\ \A p \in Permutations(Len(all_x)) :
               LET sx == [k \in 1..Len(all_x) |-> all_x[p[k]]]
                   sy == [k \in 1..Len(all_x) |-> all_y[p[k]]]
               IN NonIncreasing(sx) =>
                      ret.twice = _compute(<<sx>>, <<sy>>, reorder).ret.twice
        /\ (all_x = <<0, 2, 1>> /\ all_y = <<1, 0, 1>>) => ret.twice = 2

\* C5: with reorder set, compute() returns what compute() returns, with or
\* without reordering, on the same points supplied in descending order of x
\* with points of equal x in their buffered order, and the area of
\* x = [0,2,1], y = [1,0,1] is 1.5.
C5_Reordered ==
    (last = "compute" /\ reorder) =>
        LET n == Len(all_x)
            sx == [k \in 1..n |-> all_x[StableSource(all_x, k)]]
            sy == [k \in 1..n |-> all_y[StableSource(all_x, k)]]
        IN /\ ~ret.raised
           /\ ret.twice = _compute(<<sx>>, <<sy>>, TRUE).ret.twice
           /\ ret.twice = _compute(<<sx>>, <<sy>>, FALSE).ret.twice
           /\ (all_x = <<0, 2, 1>> /\ all_y = <<1, 0, 1>>) => ret.twice = 3

C5_Witness ==
    /\ last = "compute"
    /\ reorder
    /\ all_x = <<0, 2, 1>>
    /\ all_y = <<1, 0, 1>>

\* C6: compute() on buffers that hold no point or a single point in total
\* raises nothing and returns 0.
C6_Degenerate ==
    (last = "compute" /\ Len(all_x) <= 1) =>
        /\ ~ret.raised
        /\ ret.twice = 0

C6_Witness ==
    /\ last = "compute"
    /\ Len(x) = 2
    /\ Len(all_x) = 1
    /\ ~ret.raised

\* C7: a compute() that follows a compute() with no update() in between
\* returns what that one returned.
C7_Idempotent ==
    [][again' => ret' = ret]_vars

C7_Witness ==
    /\ again
    /\ last = "compute"
    /\ ret.twice # 0

\* C8: with reorder unset and a concatenated x that is not monotonic,
\* compute() raises nothing: it integrates x as buffered and returns a number.
C8_Unvalidated ==
    (last = "compute" /\ ~reorder /\ ~Monotonic(all_x)) =>
        /\ ~ret.raised
        /\ ret.twice \in Int
        /\ ret.xs = all_x

C8_Witness ==
    /\ last = "compute"
    /\ ~reorder
    /\ ~Monotonic(all_x)
    /\ ret.twice # 0

\* C9: with reorder set, compute() integrates the concatenation, in append
\* order, of the buffers after a stable descending sort on x: the integrated
\* x is non-increasing, every integrated point is a point of the
\* concatenation, each taken once, and points of equal x keep their order.
C9_StableSort ==
    (last = "compute" /\ reorder) =>
        LET n == Len(all_x)
        IN /\ ~ret.raised
           /\ Len(ret.xs) = n /\ Len(ret.ys) = n /\ Len(ret.idx) = n
           /\ NonIncreasing(ret.xs)
           /\ \A i \in 1..n : ret.idx[i] \in 1..n
           /\ \A i, j \in 1..n : ret.idx[i] = ret.idx[j] => i = j
           /\ \A i \in 1..n : /\ ret.xs[i] = all_x[ret.idx[i]]
                              /\ ret.ys[i] = all_y[ret.idx[i]]
           /\ \A i, j \in 1..n :
                  (i < j /\ ret.xs[i] = ret.xs[j]) => ret.idx[i] < ret.idx[j]

C9_Witness ==
    /\ last = "compute"
    /\ reorder
    /\ Len(x) = 2
    /\ ~NonIncreasing(all_x)
    /\ \E i, j \in 1..Len(all_x) : i < j /\ all_x[i] = all_x[j] /\ all_y[i] # all_y[j]

\* C10: an update whose inputs fail validation leaves both buffers as they
\* were, so that compute() returns what it returned before the call.
C10_FailedUpdate ==
    [][last' = "update_failed" =>
        /\ x' = x
        /\ y' = y
        /\ _compute(x', y', reorder').ret = _compute(x, y, reorder).ret]_vars

C10_Witness ==
    /\ last = "update_failed"
    /\ ret.raised
    /\ Len(x) = 1
    /\ Len(all_x) >= 1

====
